---- MODULE Spec2Model ----
(***************************************************************************)
(* Model of PlyMesh.__init__ (src/src/athena/plymesh.py): the conversion   *)
(* of a polygon mesh into a vertex pool and a triangle index pool.         *)
(*                                                                         *)
(* The face loop is modelled step by step: one action per pass-through     *)
(* triangle face, one for the start of an n-gon (boundary edge set,        *)
(* assert, triangulation, flip decision), one per emitted triangle, one    *)
(* for each way the conversion raises, and one for the hand-over to the    *)
(* renderer.  The 2-D triangulator (earcut) is an external library: it is  *)
(* modelled as ear clipping with a nondeterministic choice of ear.         *)
(***************************************************************************)
EXTENDS Integers, Sequences, FiniteSets, TLC

(* ------------------------------ bounds --------------------------------- *)
\* number of vertices of the small input mesh
NumVerts == 7
\* maximal number of faces of an input mesh
MaxFaces == 2
\* maximal size of the face element of an input mesh: per face, one vertex
\* count and the vertex indices
MaxFaceData == 10

(* ------------------------- program constants --------------------------- *)
\* byte width of _basetypes.UnsignedShort
UnsignedShortWidth == 2
\* byte width of _basetypes.UnsignedInt
UnsignedIntWidth == 4
\* triangle count from which 32-bit indices are used
IndexThreshold == 30000

_basetype_widths(bt) == IF bt = "UnsignedShort" THEN UnsignedShortWidth ELSE UnsignedIntWidth

\* storing an integer array into a numpy array of an unsigned type keeps
\* its low bits only
CastIndex(x, bt) == x % (2 ^ (8 * _basetype_widths(bt)))

CastTri(t, bt) == << CastIndex(t[1], bt), CastIndex(t[2], bt), CastIndex(t[3], bt) >>

(* ----------------------------- input data ------------------------------ *)
\* positions of the first vertices of the input mesh: a square 0,1,2,3 in
\* the plane z = 0, the midpoint 4 of its side 0-1, a point 5 above the
\* plane and the centre 6 of the square
Geometry ==
  << <<0,0,0>>, <<2,0,0>>, <<2,2,0>>, <<0,2,0>>, <<1,0,0>>, <<1,1,1>>, <<1,1,0>> >>

\* plydata['vertex'].data: the position (x, y, z) of input vertex v
vertices(v) ==
  IF v < Len(Geometry) THEN Geometry[v + 1] ELSE << v % 3, (v \div 3) % 3, 2 >>

\* the vertex counts of the input meshes: a small mesh, and a mesh with
\* more vertices than a 16-bit index can name
VertexCounts == { NumVerts, 2 ^ (8 * UnsignedShortWidth) + 1 }

\* the faces an input mesh with n vertices is built from: triangles, a
\* convex planar quad and the same quad seen from behind, a quad that
\* repeats a vertex, a
\* planar pentagon whose first three vertices are collinear, and faces with
\* fewer than three vertices
FaceChoices(n) ==
  { <<0,1,2>>, <<0,1,n-1>>,
    <<0,1,2,3>>, <<3,2,1,0>>, <<0,1,0,2>>,
    <<0,4,1,2,3>>,
    <<0,1>>, <<0>>, << >> }

RECURSIVE FaceData(_)
FaceData(fs) == IF fs = << >> THEN 0 ELSE 1 + Len(Head(fs)) + FaceData(Tail(fs))

FaceLists(n) ==
  { fs \in UNION { [1..k -> FaceChoices(n)] : k \in 0..MaxFaces } :
      FaceData(fs) <= MaxFaceData }

(* --------------------------- pure functions ---------------------------- *)
Min(a, b) == IF a < b THEN a ELSE b
Max(a, b) == IF a < b THEN b ELSE a

edge(a, b) == << Min(a, b), Max(a, b) >>

\* the edges edgeIter yields for a non-empty poly, as a set
edgeIter(poly) ==
  { edge(poly[i], poly[i + 1]) : i \in 1..(Len(poly) - 1) }
    \cup { edge(poly[Len(poly)], poly[1]) }

Sub(p, q) == << p[1] - q[1], p[2] - q[2], p[3] - q[3] >>

Cross(u, v) ==
  << u[2] * v[3] - u[3] * v[2], u[3] * v[1] - u[1] * v[3], u[1] * v[2] - u[2] * v[1] >>

Dot(u, v) == u[1] * v[1] + u[2] * v[2] + u[3] * v[3]

\* tri_norm: the direction of the normal.  The code divides it by its
\* length; the unit vector is represented by its integer direction, and the
\* zero direction stands for the NaN vector that 0/0 yields.
tri_norm(a, b, c) == Cross(Sub(a, b), Sub(a, c))

IsNaN(n) == n = <<0, 0, 0>>

\* not np.isclose(np.dot(n1, n2), 1.0, rtol=1e-1) on the unit vectors of
\* n1 and n2: the dot product d is close when |d - 1| <= 1e-8 + 0.1, that
\* is d >= 0.9 (no d of integer directions this small lies within 1e-8
\* below 0.9); a NaN is never close.
IsCloseToOne(n1, n2) ==
  /\ ~IsNaN(n1)
  /\ ~IsNaN(n2)
  /\ Dot(n1, n2) > 0
  /\ 100 * Dot(n1, n2) * Dot(n1, n2) >= 81 * Dot(n1, n1) * Dot(n2, n2)

(* ---------------------------- triangulator ----------------------------- *)
RemoveAt(s, i) == SubSeq(s, 1, i - 1) \o SubSeq(s, i + 1, Len(s))

EarTri(ring, e) ==
  << ring[IF e = 1 THEN Len(ring) ELSE e - 1], ring[e], ring[IF e = Len(ring) THEN 1 ELSE e + 1] >>

\* the sequences of k triangles that clipping k ears off the ring can give
RECURSIVE Clip(_, _)
Clip(ring, k) ==
  IF k = 0 \/ Len(ring) < 3 THEN { << >> }
  ELSE UNION { { << EarTri(ring, e) >> \o rest : rest \in Clip(RemoveAt(ring, e), k - 1) } :
               e \in 1..Len(ring) }

\* earcut.earcut on a ring of N points: triples of local indices 0..N-1,
\* prev-ear-next of a ring linked in index order or in reverse order, at
\* most N-2 of them (fewer when the routine gives up or drops points)
earcut(N) ==
  UNION { Clip(ring, k) : ring \in { [i \in 1..N |-> i - 1], [i \in 1..N |-> N - i] },
                          k \in 0..(N - 2) }

(* ------------------------------- state --------------------------------- *)
VARIABLES
  numVerts,          \* len(vertices)
  faces,             \* plydata['face'].data['vertex_indices']
  vertex_nparr,      \* rows of the vertex pool written since allocation
  vtx_idx,           \* vertex write cursor
  tri_nparr,         \* the index pool, total_tris rows
  tri_idx,           \* triangle write cursor
  internal_vertices, \* original vertex index -> duplicated index
  fi,                \* position of the face loop (1-based)
  new_tris,          \* triangles returned by earcut for the current n-gon
  ti,                \* position of the triangle loop (1-based)
  flip,              \* flip decision of the current n-gon
  pc,                \* "loop", "emit", "done" or "error"
  err,               \* the exception raised, "" when none
  indexCount,        \* indexAttr count handed to the renderer, 0 before
  emitted            \* history of the add_tri calls

vars == << numVerts, faces, vertex_nparr, vtx_idx, tri_nparr, tri_idx,
           internal_vertices, fi, new_tris, ti, flip, pc, err, indexCount, emitted >>

(* --------------------------- pre-pass sizing --------------------------- *)
large_faces(fs) == { i \in 1..Len(fs) : Len(fs[i]) > 3 }

num_large_faces(fs) == Cardinality(large_faces(fs))

num_tris(fs) == Len(fs) - num_large_faces(fs)

RECURSIVE num_interior_tris(_)
num_interior_tris(fs) ==
  IF fs = << >> THEN 0
  ELSE (IF Len(Head(fs)) > 3 THEN Len(Head(fs)) ELSE 0) + num_interior_tris(Tail(fs))

\* faulty variant of total_vertices: the sizing of the commented-out line
\* 85, one extra vertex per n-gon
total_vertices_old(nv, fs) == nv + num_large_faces(fs)

\* total_vertices = len(vertices) * 2
total_vertices(nv, fs) == nv * 2

total_tris(fs) == num_tris(fs) + num_interior_tris(fs)

index_basetype(fs) ==
  IF total_tris(fs) < IndexThreshold THEN "UnsignedShort" ELSE "UnsignedInt"

(* ----------------------------- vertex pool ----------------------------- *)
\* the row of the pool as allocated: the input position for an original
\* vertex, zeros above, interior column 0
InitialRow(nv, i) ==
  [ pos |-> IF i < nv THEN vertices(i) ELSE <<0, 0, 0>>, interior |-> 0 ]

\* vertex_nparr[i,:] for a pool with written rows vn
RowOf(nv, vn, i) == IF i \in DOMAIN vn THEN vn[i] ELSE InitialRow(nv, i)

Row(i) == RowOf(numVerts, vertex_nparr, i)

\* faulty variant of add_vtx: the interior column is left at 0
add_vtx_unflagged(st, v) ==
  IF st.vtx >= st.cap THEN [st EXCEPT !.raised = TRUE]
  ELSE [st EXCEPT !.vn = (st.vtx :> [v EXCEPT !.interior = 0]) @@ st.vn,
                  !.vtx = st.vtx + 1,
                  !.ret = st.vtx]

\* add_vtx(v) with the default interior=1, on the closure state st; a
\* write at or past the end of the pool raises IndexError
add_vtx(st, v) ==
  IF st.vtx >= st.cap THEN [st EXCEPT !.raised = TRUE]
  ELSE [st EXCEPT !.vn = (st.vtx :> [v EXCEPT !.interior = 1]) @@ st.vn,
                  !.vtx = st.vtx + 1,
                  !.ret = st.vtx]

\* faulty variant of internalize_vtx: the map is not consulted, every call
\* duplicates the vertex again
internalize_vtx_fresh(st, v) ==
  IF st.raised THEN st
  ELSE LET added == add_vtx(st, RowOf(st.nv, st.vn, v))
       IN  IF added.raised THEN added
           ELSE [added EXCEPT !.iv = (v :> added.ret) @@ st.iv]

\* internalize_vtx(v) on the closure state st; a state that has raised
\* stays as it is
internalize_vtx(st, v) ==
  IF st.raised THEN st
  ELSE IF v \notin DOMAIN st.iv
       THEN LET added == add_vtx(st, RowOf(st.nv, st.vn, v))
            IN  IF added.raised THEN added
                ELSE [added EXCEPT !.iv = (v :> added.ret) @@ st.iv]
       ELSE [st EXCEPT !.ret = st.iv[v]]

(* --------------------------- n-gon processing -------------------------- *)
external_edges(poly) == edgeIter(poly)

\* faulty variant of assert_simple: the assert is missing
assert_simple_off(poly) == TRUE

\* assert( len(external_edges) == len(poly) )
assert_simple(poly) == Cardinality(external_edges(poly)) = Len(poly)

\* poly_geom[x,:]: the position of the x-th (0-based) vertex of poly
poly_geom(poly, x) == Row(poly[x + 1]).pos

poly_normal(poly) == tri_norm(poly_geom(poly, 0), poly_geom(poly, 1), poly_geom(poly, 2))

tri0_norm(poly, tris) ==
  tri_norm(poly_geom(poly, tris[1][1]), poly_geom(poly, tris[1][2]), poly_geom(poly, tris[1][3]))

flip_decision(poly, tris) == ~IsCloseToOne(tri0_norm(poly, tris), poly_normal(poly))

\* idx_a, idx_b, idx_c of triangle t (local indices) of poly, after the
\* swap of idx_b and idx_c when flip is set
flipped(poly, t, f) ==
  IF f THEN << poly[t[1] + 1], poly[t[3] + 1], poly[t[2] + 1] >>
  ELSE << poly[t[1] + 1], poly[t[2] + 1], poly[t[3] + 1] >>

\* faulty variant of internalize_tri: each index is tested on the edge that
\* ends at it instead of the edge that starts at it
internalize_tri_shifted(st, o, ext) ==
  LET sa == IF edge(o[3], o[1]) \notin ext THEN internalize_vtx(st, o[1]) ELSE [st EXCEPT !.ret = o[1]]
      sb == IF edge(o[1], o[2]) \notin ext THEN internalize_vtx(sa, o[2]) ELSE [sa EXCEPT !.ret = o[2]]
      sc == IF edge(o[2], o[3]) \notin ext THEN internalize_vtx(sb, o[3]) ELSE [sb EXCEPT !.ret = o[3]]
  IN  [ st |-> sc, idx |-> << sa.ret, sb.ret, sc.ret >> ]

\* lines 172-180: the three edges are taken on the original indices, then
\* idx_a, idx_b, idx_c are internalized in turn
internalize_tri(st, o, ext) ==
  LET sa == IF edge(o[1], o[2]) \notin ext THEN internalize_vtx(st, o[1]) ELSE [st EXCEPT !.ret = o[1]]
      sb == IF edge(o[2], o[3]) \notin ext THEN internalize_vtx(sa, o[2]) ELSE [sa EXCEPT !.ret = o[2]]
      sc == IF edge(o[3], o[1]) \notin ext THEN internalize_vtx(sb, o[3]) ELSE [sb EXCEPT !.ret = o[3]]
  IN  [ st |-> sc, idx |-> << sa.ret, sb.ret, sc.ret >> ]

\* the state the closures add_vtx and internalize_vtx work on
Closure ==
  [ nv |-> numVerts, cap |-> total_vertices(numVerts, faces), vn |-> vertex_nparr,
    vtx |-> vtx_idx, iv |-> internal_vertices, ret |-> -1, raised |-> FALSE ]

(* ------------------------------- actions ------------------------------- *)
Init ==
  /\ numVerts \in VertexCounts
  /\ faces \in FaceLists(numVerts)
  /\ vertex_nparr = << >>
  /\ vtx_idx = numVerts
  /\ tri_nparr = [ i \in 0..(total_tris(faces) - 1) |-> <<0, 0, 0>> ]
  /\ tri_idx = 0
  /\ internal_vertices = << >>
  /\ fi = 1
  /\ new_tris = << >>
  /\ ti = 0
  /\ flip = FALSE
  /\ pc = "loop"
  /\ err = ""
  /\ indexCount = 0
  /\ emitted = << >>

Raise(e) ==
  /\ pc' = "error"
  /\ err' = e

\* add_tri(t) for the triangle loc (local indices) of face fi whose original
\* indices are o; the
\* caller has checked that the write lands inside the index pool
add_tri(t, o, loc, vtxBefore, vtxNow) ==
  /\ tri_nparr' = [ tri_nparr EXCEPT ![tri_idx] = CastTri(t, index_basetype(faces)) ]
  /\ tri_idx' = tri_idx + 1
  /\ emitted' = Append(emitted, [ face |-> fi, orig |-> o, idx |-> t,
                                  local |-> loc,
                                  vtxBefore |-> vtxBefore, vtxAt |-> vtxNow ])

\* a face of three vertices: add_tri(poly); a write outside the index pool
\* raises IndexError
AddTriFace ==
  /\ pc = "loop"
  /\ fi <= Len(faces)
  /\ Len(faces[fi]) = 3
  /\ IF tri_idx < total_tris(faces)
       THEN /\ add_tri(faces[fi], faces[fi], <<0, 1, 2>>, vtx_idx, vtx_idx)
            /\ fi' = fi + 1
            /\ UNCHANGED << pc, err >>
       ELSE /\ Raise("IndexError: index pool")
            /\ UNCHANGED << tri_nparr, tri_idx, emitted, fi >>
  /\ UNCHANGED << numVerts, faces, vertex_nparr, vtx_idx, internal_vertices,
                  new_tris, ti, flip, indexCount >>

\* what the else branch raises before the triangulation: RuntimeError from
\* next(it) in edgeIter on an empty face, the assert, or IndexError from
\* poly_geom[x,:] for a face of fewer than 3 vertices; "" when it passes
NgonSetupError(poly) ==
  IF Len(poly) = 0 THEN "RuntimeError"
  ELSE IF ~assert_simple(poly) THEN "AssertionError"
  ELSE IF Len(poly) < 3 THEN "IndexError"
  ELSE ""

\* the else branch raises before the triangulation
NgonAbort ==
  /\ pc = "loop"
  /\ fi <= Len(faces)
  /\ Len(faces[fi]) # 3
  /\ NgonSetupError(faces[fi]) # ""
  /\ Raise(NgonSetupError(faces[fi]))
  /\ UNCHANGED << numVerts, faces, vertex_nparr, vtx_idx, tri_nparr, tri_idx,
                  internal_vertices, fi, new_tris, ti, flip, indexCount, emitted >>

\* earcut returns no triangle: geom_tri0[0,:] raises IndexError
NgonNoTriangles ==
  /\ pc = "loop"
  /\ fi <= Len(faces)
  /\ Len(faces[fi]) # 3
  /\ NgonSetupError(faces[fi]) = ""
  /\ << >> \in earcut(Len(faces[fi]))
  /\ new_tris' = << >>
  /\ Raise("IndexError")
  /\ UNCHANGED << numVerts, faces, vertex_nparr, vtx_idx, tri_nparr, tri_idx,
                  internal_vertices, fi, ti, flip, indexCount, emitted >>

\* the else branch up to the flip decision
NgonBegin ==
  /\ pc = "loop"
  /\ fi <= Len(faces)
  /\ Len(faces[fi]) # 3
  /\ NgonSetupError(faces[fi]) = ""
  /\ \E tris \in earcut(Len(faces[fi])) :
       /\ tris # << >>
       /\ new_tris' = tris
       /\ flip' = flip_decision(faces[fi], tris)
  /\ ti' = 1
  /\ pc' = "emit"
  /\ UNCHANGED << numVerts, faces, vertex_nparr, vtx_idx, tri_nparr, tri_idx,
                  internal_vertices, fi, err, indexCount, emitted >>

\* one pass of the triangle loop; after the last triangle the face loop
\* moves on.  A write of add_vtx or add_tri outside its pool raises
\* IndexError.
EmitTriangle ==
  /\ pc = "emit"
  /\ ti <= Len(new_tris)
  /\ LET poly == faces[fi]
         o    == flipped(poly, new_tris[ti], flip)
         r    == internalize_tri(Closure, o, external_edges(poly))
     IN  /\ vertex_nparr' = r.st.vn
         /\ vtx_idx' = r.st.vtx
         /\ internal_vertices' = r.st.iv
         /\ IF r.st.raised
              THEN /\ Raise("IndexError: vertex pool")
                   /\ UNCHANGED << tri_nparr, tri_idx, emitted, fi, ti >>
              ELSE IF tri_idx >= total_tris(faces)
              THEN /\ Raise("IndexError: index pool")
                   /\ UNCHANGED << tri_nparr, tri_idx, emitted, fi, ti >>
              ELSE /\ add_tri(r.idx, o, new_tris[ti], vtx_idx, r.st.vtx)
                   /\ err' = err
                   /\ IF ti = Len(new_tris)
                        THEN /\ pc' = "loop"
                             /\ fi' = fi + 1
                             /\ ti' = ti
                        ELSE /\ pc' = "emit"
                             /\ fi' = fi
                             /\ ti' = ti + 1
  /\ UNCHANGED << numVerts, faces, new_tris, flip, indexCount >>

\* the face loop is over: the buffers and attributes are created
Finish ==
  /\ pc = "loop"
  /\ fi > Len(faces)
  /\ pc' = "done"
  /\ indexCount' = 3 * total_tris(faces)
  /\ UNCHANGED << numVerts, faces, vertex_nparr, vtx_idx, tri_nparr, tri_idx,
                  internal_vertices, fi, new_tris, ti, flip, err, emitted >>

Next ==
  \/ AddTriFace
  \/ NgonAbort
  \/ NgonNoTriangles
  \/ NgonBegin
  \/ EmitTriangle
  \/ Finish

Spec == Init /\ [][Next]_vars

(* ------------------------- claims: vocabulary -------------------------- *)
\* the emitted triangles of face f, as positions in the history
EmittedOf(f) == { k \in 1..Len(emitted) : emitted[k].face = f }

IsNgonTriangle(k) == Len(faces[emitted[k].face]) > 3

NextCorner(i) == (i % 3) + 1

\* the edge of emitted triangle k that starts at corner i, on the original
\* polygon vertex indices, is not a boundary edge of its face
NonBoundaryFrom(k, i) ==
  edge(emitted[k].orig[i], emitted[k].orig[NextCorner(i)])
    \notin edgeIter(faces[emitted[k].face])

\* x names a vertex-pool entry created by internalization
Internalized(x) ==
  /\ numVerts <= x
  /\ x < vtx_idx
  /\ Row(x).interior = 1

Malformed(poly) ==
  \/ Len(poly) < 3
  \/ /\ Len(poly) > 3
     /\ Cardinality(edgeIter(poly)) # Len(poly)

DistinctVertices(poly) == \A i, j \in 1..Len(poly) : i # j => poly[i] # poly[j]

PairwiseDistinct(t) == t[1] # t[2] /\ t[2] # t[3] /\ t[1] # t[3]

(* -------------------------------- C1 ----------------------------------- *)
\* C1: for every face of degree 3 the triangle stored in the index pool is
\* the face's three original indices in order, and processing the face
\* leaves the vertex write cursor where it was.
C1_TriangleFaceStoredUnchanged ==
  \A k \in 1..Len(emitted) :
    Len(faces[emitted[k].face]) = 3 =>
      /\ tri_nparr[k - 1] = faces[emitted[k].face]
      /\ emitted[k].vtxAt = emitted[k].vtxBefore

(* -------------------------------- C2 ----------------------------------- *)
\* C2 as claimed: for every triangle emitted for an n-gon and each of its
\* edges that is not a boundary edge, both endpoints are passed to add_tri
\* as internalized indices.
C2_BothEndpointsInternalized ==
  \A k \in 1..Len(emitted) : \A i \in 1..3 :
    (IsNgonTriangle(k) /\ NonBoundaryFrom(k, i)) =>
      /\ Internalized(emitted[k].idx[i])
      /\ Internalized(emitted[k].idx[NextCorner(i)])

\* C2 amended: for every triangle emitted for an n-gon and each corner, the
\* corner is passed to add_tri as an internalized index (a duplicate of the
\* original vertex, interior = 1, recorded in the internalization map)
\* exactly when the edge that starts at it is not a boundary edge;
\* otherwise it is passed as the original index.
C2_FirstEndpointInternalized ==
  \A k \in 1..Len(emitted) : \A i \in 1..3 :
    IsNgonTriangle(k) =>
      IF NonBoundaryFrom(k, i)
        THEN /\ Internalized(emitted[k].idx[i])
             /\ emitted[k].orig[i] \in DOMAIN internal_vertices
             /\ internal_vertices[emitted[k].orig[i]] = emitted[k].idx[i]
             /\ Row(emitted[k].idx[i]).pos = vertices(emitted[k].orig[i])
        ELSE emitted[k].idx[i] = emitted[k].orig[i]

\* a triangle of an n-gon has a non-boundary edge whose first endpoint is
\* internalized and whose second endpoint is passed as the original index
C2_Witness ==
  \E k \in 1..Len(emitted) : \E i \in 1..3 :
    /\ IsNgonTriangle(k)
    /\ NonBoundaryFrom(k, i)
    /\ Internalized(emitted[k].idx[i])
    /\ emitted[k].idx[NextCorner(i)] = emitted[k].orig[NextCorner(i)]

(* -------------------------------- C3 ----------------------------------- *)
\* triangles k1 and k2 belong to two different n-gon faces
OfTwoNgons(k1, k2) ==
  /\ emitted[k1].face # emitted[k2].face
  /\ IsNgonTriangle(k1)
  /\ IsNgonTriangle(k2)

\* corner i of triangle k1 and corner j of triangle k2 are the same
\* original vertex V, and V starts a non-boundary edge in both
SharedInternalCorner(k1, i, k2, j) ==
  /\ emitted[k1].orig[i] = emitted[k2].orig[j]
  /\ NonBoundaryFrom(k1, i)
  /\ NonBoundaryFrom(k2, j)

\* C3 as claimed: two different n-gon faces that internalize the same
\* original vertex use two different duplicated indices for it.
C3_DuplicateNotSharedAcrossFaces ==
  \A k1, k2 \in 1..Len(emitted) :
    OfTwoNgons(k1, k2) =>
      \A i, j \in 1..3 :
        SharedInternalCorner(k1, i, k2, j) => emitted[k1].idx[i] # emitted[k2].idx[j]

\* C3 amended: the internalization map lives for the whole conversion: two
\* different n-gon faces that internalize the same original vertex use the
\* same duplicated index for it.
C3_DuplicateSharedAcrossFaces ==
  \A k1, k2 \in 1..Len(emitted) :
    OfTwoNgons(k1, k2) =>
      \A i, j \in 1..3 :
        SharedInternalCorner(k1, i, k2, j) =>
          /\ emitted[k1].idx[i] = emitted[k2].idx[j]
          /\ emitted[k1].idx[i] # emitted[k1].orig[i]

\* two n-gon faces of different vertex lists have internalized the same
\* original vertex
C3_Witness ==
  \E k1, k2 \in 1..Len(emitted) : \E i, j \in 1..3 :
    /\ OfTwoNgons(k1, k2)
    /\ SharedInternalCorner(k1, i, k2, j)
    /\ faces[emitted[k1].face] # faces[emitted[k2].face]
    /\ Internalized(emitted[k1].idx[i])
    /\ Internalized(emitted[k2].idx[j])

(* -------------------------------- C4 ----------------------------------- *)
NumTriFaces == Cardinality({ i \in 1..Len(faces) : Len(faces[i]) = 3 })

RECURSIVE NgonDegreeSum(_)
NgonDegreeSum(i) ==
  IF i = 0 THEN 0
  ELSE (IF Len(faces[i]) > 3 THEN Len(faces[i]) ELSE 0) + NgonDegreeSum(i - 1)

\* C4: the vertex write cursor never exceeds twice the original vertex
\* count, the triangle write cursor never exceeds numTriFaces plus the sum
\* of the degrees of the n-gons (for faces of 3 or more vertices), every
\* written row lies inside its pool and no write raises for landing outside.
C4_PoolsNeverOverflow ==
  /\ vtx_idx <= 2 * numVerts
  /\ \A i \in DOMAIN vertex_nparr : 0 <= i /\ i < 2 * numVerts
  /\ (\A i \in 1..Len(faces) : Len(faces[i]) >= 3) =>
       tri_idx <= NumTriFaces + NgonDegreeSum(Len(faces))
  /\ \A k \in 1..tri_idx : (k - 1) \in DOMAIN tri_nparr
  /\ err \notin { "IndexError: vertex pool", "IndexError: index pool" }

\* a conversion of two n-gons has completed with duplicates in the vertex
\* pool
C4_Witness ==
  /\ pc = "done"
  /\ Cardinality(large_faces(faces)) = 2
  /\ vtx_idx >= numVerts + 3
  /\ tri_idx = 4

(* -------------------------------- C5 ----------------------------------- *)
\* C5: every triangle stored in the index pool has three pairwise distinct
\* indices, each below the vertex write cursor at the moment of the append
\* (faces of pairwise distinct vertices).
C5_StoredIndicesDistinctInRange ==
  \A k \in 1..Len(emitted) :
    DistinctVertices(faces[emitted[k].face]) =>
      /\ PairwiseDistinct(tri_nparr[k - 1])
      /\ \A i \in 1..3 : 0 <= tri_nparr[k - 1][i] /\ tri_nparr[k - 1][i] < emitted[k].vtxAt

(* -------------------------------- C6 ----------------------------------- *)
PosOf(poly) == [ i \in 1..Len(poly) |-> Row(poly[i]).pos ]

Planar(poly) ==
  \A i, j, k, l \in 1..Len(poly) :
    Dot(Cross(Sub(PosOf(poly)[j], PosOf(poly)[i]), Sub(PosOf(poly)[k], PosOf(poly)[i])),
        Sub(PosOf(poly)[l], PosOf(poly)[i])) = 0

\* the normal of the triangle of local indices loc of poly, as returned
ReturnedNormal(poly, loc) ==
  tri_norm(poly_geom(poly, loc[1]), poly_geom(poly, loc[2]), poly_geom(poly, loc[3]))

\* the triangles the triangulator returned for face f: all of them while
\* the face is being emitted, the emitted ones afterwards
ReturnedFor(f) ==
  IF pc = "emit" /\ fi = f THEN { new_tris[t] : t \in 1..Len(new_tris) }
  ELSE { emitted[k].local : k \in EmittedOf(f) }

UniformWinding(f) ==
  \A l1, l2 \in ReturnedFor(f) :
    Dot(ReturnedNormal(faces[f], l1), ReturnedNormal(faces[f], l2)) > 0

\* the normal of emitted triangle k, from the positions of the vertex-pool
\* entries passed to add_tri
EmittedNormal(k) ==
  tri_norm(Row(emitted[k].idx[1]).pos, Row(emitted[k].idx[2]).pos, Row(emitted[k].idx[3]).pos)

\* C6: for every planar n-gon whose returned triangles have one uniform
\* winding, the normal of every emitted triangle has a positive dot product
\* with the reference normal of the polygon's first three vertices.
C6_WindingConsistent ==
  \A k \in 1..Len(emitted) :
    ( /\ IsNgonTriangle(k)
      /\ Planar(faces[emitted[k].face])
      /\ UniformWinding(emitted[k].face) ) =>
        Dot(poly_normal(faces[emitted[k].face]), EmittedNormal(k)) > 0

(* -------------------------------- C7 ----------------------------------- *)
\* C7: when the face list holds a malformed face (fewer than 3 vertices, or
\* more than 3 vertices and a number of distinct boundary edges other than
\* its vertex count), the face loop never gets past that face, the
\* conversion never completes and nothing is handed to the renderer.
C7_MalformedInputAborts ==
  \A i \in 1..Len(faces) :
    Malformed(faces[i]) =>
      /\ fi <= i
      /\ pc # "done"
      /\ indexCount = 0
      /\ \A k \in 1..Len(emitted) : emitted[k].face # i

\* the conversion has raised at a malformed face after other faces had
\* been put into the index pool
C7_Witness ==
  /\ pc = "error"
  /\ fi = 2
  /\ Len(faces[fi]) > 3
  /\ Malformed(faces[fi])
  /\ tri_idx >= 2

(* -------------------------------- C8 ----------------------------------- *)
\* the vertex-pool rows looked at: every written row, the rows of the small
\* mesh, the last original row and the rows around the write cursor (every
\* other row is as allocated)
ProbedRows ==
  DOMAIN vertex_nparr \cup (0..NumVerts) \cup ((numVerts - 1)..(vtx_idx + 1))

\* C8: a vertex-pool entry has interior = 1 exactly when its index lies
\* between the original vertex count and the write cursor; every index in
\* the internalization map names such an entry, whose position is that of
\* the original vertex; original entries keep interior = 0 and position.
C8_InteriorFlagIffInternalized ==
  /\ \A i \in ProbedRows :
       (i >= 0 /\ i < 2 * numVerts) =>
         /\ (Row(i).interior = 1) <=> (numVerts <= i /\ i < vtx_idx)
         /\ i < numVerts => Row(i) = [ pos |-> vertices(i), interior |-> 0 ]
  /\ \A v \in DOMAIN internal_vertices :
       /\ v < numVerts
       /\ Internalized(internal_vertices[v])
       /\ Row(internal_vertices[v]).pos = vertices(v)

\* two original vertices have been internalized
C8_Witness ==
  /\ Cardinality(DOMAIN internal_vertices) >= 2
  /\ \E v \in DOMAIN internal_vertices :
       /\ vertices(v) # <<0, 0, 0>>
       /\ Row(internal_vertices[v]) = [ pos |-> vertices(v), interior |-> 1 ]

(* -------------------------------- C9 ----------------------------------- *)
\* C9: every value stored in the index pool equals the vertex-pool index
\* that was passed to add_tri for it.
C9_StoredIndexEqualsIntended ==
  \A k \in 1..Len(emitted) : tri_nparr[k - 1] = emitted[k].idx

(* -------------------------------- C10 ---------------------------------- *)
\* C10: when a conversion completes, the number of triangles declared to
\* the renderer equals the number of triangles written by add_tri.
C10_DeclaredEqualsWritten ==
  pc = "done" => indexCount = 3 * tri_idx

====
